---- MODULE Spec2Model ----
(***************************************************************************)
(* Model of accessibility_check_backend/wcag/utils.py: the WCAG contrast   *)
(* ratio of two colours, the two dominant colours of an image region, the  *)
(* contrast of a word box against its borders, the screenshot capture and  *)
(* the XPath of a DOM element.                                             *)
(*                                                                         *)
(* Floating point is modelled in fixed point: a real x is the integer      *)
(* x * Scale, truncated.  A colour is <<r, g, b, d>>, standing for the     *)
(* channels r/d, g/d, b/d, so that the pixel (255, 0, 0) is                *)
(* <<255, 0, 0, 1>> and a mean of pixels keeps its exact value.            *)
(***************************************************************************)
EXTENDS Integers, Sequences, FiniteSets, TLC

VARIABLES
    pc,                          \* where the call under way stands
    color1, color2, ratio,       \* calculate_contrast_ratio: arguments, result
    a, colors,                   \* most_common_colors: argument, result
    img, box, contrast,          \* get_contrast_ratio: arguments, result
    dom, target, element, current_xpath, xpath,
                                 \* get_xpath_of_element: the page, the element
                                 \* asked for, the arguments of the call under
                                 \* way, result
    args, events, driver, file, original_size, required_height, returned
                                 \* take_screenshot: arguments, the calls of
                                 \* the driver so far, the driver, the file at
                                 \* path, two local variables, result

contrastVars == <<color1, color2, ratio>>
colorsVars == <<a, colors>>
wordVars == <<img, box, contrast>>
xpathVars == <<dom, target, element, current_xpath, xpath>>
shotVars == <<args, events, driver, file, original_size, required_height, returned>>
vars == <<pc, contrastVars, colorsVars, wordVars, xpathVars, shotVars>>

\* The fixed-point unit: 1.0 is Scale.
Scale == 10000

\* The number of values a channel of an input colour is drawn from.
NumLevels == 3

\* The largest region most_common_colors is called on.
MaxRows == 2
MaxCols == 2

\* The largest number of elements of a page.
MaxNodes == 4

\* The height of the strips above and below the word box.
BorderHeight == 3

\* The width of the screenshots get_contrast_ratio is called on, and the
\* number of their pixels that are not of the background colour.  Their
\* height leaves, under the top strip, as many rows again for the word box
\* and the bottom strip.
ImgW == 1
MaxInk == 2
ImgH == 2 * BorderHeight


----------------------------------------------------------------------------
(* Fixed-point and rational helpers.                                       *)

Mul(x, y) == (x * y) \div Scale

Pow5(r) == Mul(Mul(Mul(Mul(r, r), r), r), r)

\* The largest r in lo..hi with r^5 <= y: the fifth root of y.
RECURSIVE Root5(_, _, _)
Root5(lo, hi, y) ==
    IF lo >= hi THEN lo
    ELSE LET mid == (lo + hi + 1) \div 2
         IN  IF Pow5(mid) <= y THEN Root5(mid, hi, y) ELSE Root5(lo, mid - 1, y)

\* x ** 2.4 = x^2 * (x^2) ** (1/5), for 0 <= x <= 1.0.
Pow24(x) == LET x2 == Mul(x, x) IN Mul(x2, Root5(0, Scale, x2))

\* Pow24, computed once for every argument.
Pow24Table == [x \in 0..Scale |-> Pow24(x)]

\* A ratio is [num, den] with den > 0; -1 is [num |-> -1, den |-> 1].
Rat(n, d) == [num |-> n, den |-> d]
RatLess(p, q) == p.num * q.den < q.num * p.den
RatEq(p, q) == p.num * q.den = q.num * p.den
MinusOne == Rat(-1, 1)
One == Rat(1, 1)
TwentyOne == Rat(21, 1)

\* np.sum(color): the sum of the channels, as a ratio.
ChannelSum(c) == Rat(c[1] + c[2] + c[3], c[4])

----------------------------------------------------------------------------
(* calculate_contrast_ratio                                                *)

\* A bug that would bind light to color1 on equal sums.
light_on_ties_first(c1, c2) ==
    IF ~RatLess(ChannelSum(c1), ChannelSum(c2)) THEN c1 ELSE c2

\* light = color1 if np.sum(color1) > np.sum(color2) else color2
light(c1, c2) == IF RatLess(ChannelSum(c2), ChannelSum(c1)) THEN c1 ELSE c2

\* A bug that would bind dark to color1 on equal sums.
dark_on_ties_first(c1, c2) ==
    IF ~RatLess(ChannelSum(c2), ChannelSum(c1)) THEN c1 ELSE c2

\* dark = color1 if np.sum(color1) < np.sum(color2) else color2
dark(c1, c2) == IF RatLess(ChannelSum(c1), ChannelSum(c2)) THEN c1 ELSE c2

\* linearize(rgb_value), for the channel value n/d:
\*   index = rgb_value / 255.0
\*   index / 12.92 if index < 0.03928 else ((index + 0.055) / 1.055) ** 2.4
linearize(n, d) ==
    LET index == (n * Scale) \div (255 * d)
    IN  IF n * 12500 < 491 * 255 * d      \* n / (255 d) < 0.03928 = 491/12500
        THEN (index * 100) \div 1292
        ELSE Pow24Table[((index + (55 * Scale) \div 1000) * 1000) \div 1055]

\* 0.2126 * linearize(rgb[0]) + 0.7152 * linearize(rgb[1]) + 0.0722 * linearize(rgb[2])
relative_luminance(rgb) ==
    (2126 * linearize(rgb[1], rgb[4]) + 7152 * linearize(rgb[2], rgb[4])
       + 722 * linearize(rgb[3], rgb[4])) \div 10000

\* (relative_luminance(light) + 0.05) / (relative_luminance(dark) + 0.05)
calculate_contrast_ratio(c1, c2) ==
    Rat(relative_luminance(light(c1, c2)) + Scale \div 20,
        relative_luminance(dark(c1, c2)) + Scale \div 20)

----------------------------------------------------------------------------
(* The call of calculate_contrast_ratio.  Its inputs are colours whose      *)
(* channels are drawn from NumLevels values spread over 0..255.            *)

Black == <<0, 0, 0, 1>>
White == <<255, 255, 255, 1>>
Red == <<255, 0, 0, 1>>
Green == <<0, 255, 0, 1>>

Levels == {(255 * i) \div (NumLevels - 1) : i \in 0..(NumLevels - 1)}
InputColors == {<<r, g, b, 1>> : r \in Levels, g \in Levels, b \in Levels}

IdleContrast == color1 = Black /\ color2 = Black /\ ratio = Rat(0, 1)

InitContrast ==
    /\ color1 \in InputColors
    /\ color2 \in InputColors
    /\ ratio = Rat(0, 1)

CallContrast ==
    /\ pc = "ready"
    /\ ratio' = calculate_contrast_ratio(color1, color2)
    /\ pc' = "returned"
    /\ UNCHANGED <<color1, color2, colorsVars, wordVars, xpathVars, shotVars>>

----------------------------------------------------------------------------
(* most_common_colors.  An image region is a sequence of rows, each a       *)
(* sequence of colours; None is the empty tuple.                           *)

None == <<>>

Rows(im) == Len(im)
Cols(im) == IF Len(im) = 0 THEN 0 ELSE Len(im[1])

\* a.reshape(a.shape[0] * a.shape[1], 3), then [tuple(v) for v in a]: the
\* pixels in row-major order.
Flatten(im) ==
    [k \in 1..(Rows(im) * Cols(im)) |->
        im[((k - 1) \div Cols(im)) + 1][((k - 1) % Cols(im)) + 1]]

\* Counter(a): the count of each distinct colour; the Counter keeps its keys
\* in the order of their first occurrence.
Keys(px) == {px[k] : k \in DOMAIN px}
Count(px, c) == Cardinality({k \in DOMAIN px : px[k] = c})
FirstAt(px, c) == CHOOSE k \in DOMAIN px : px[k] = c /\ \A j \in 1..(k - 1) : px[j] # c

\* A bug that would rank the colours by first occurrence alone.
RanksBeforeUnsorted(px, c, d) == FirstAt(px, c) < FirstAt(px, d)

\* Counter.most_common orders by descending count and, the sort being
\* stable, equal counts by first occurrence.
RanksBefore(px, c, d) ==
    \/ Count(px, c) > Count(px, d)
    \/ Count(px, c) = Count(px, d) /\ FirstAt(px, c) < FirstAt(px, d)

\* The first of the colours of `among` in that order.
Top(px, among) == CHOOSE c \in among : \A d \in among \ {c} : RanksBefore(px, c, d)

\* [v[0] for v in c.most_common(2)]
MostCommon2(px) ==
    LET keys == Keys(px)
    IN  IF keys = {} THEN <<>>
        ELSE LET first == Top(px, keys)
             IN  IF keys = {first} THEN <<first>>
                 ELSE <<first, Top(px, keys \ {first})>>

\* if len(colors) < 2: colors += [None] * (2 - len(colors))
most_common_colors(im) ==
    LET picked == MostCommon2(Flatten(im))
    IN  picked \o [k \in 1..(2 - Len(picked)) |-> None]

\* The colours of the pixels of the images.
Palette == {Black, White, Red}

\* The regions of h rows and w columns.
Regions(h, w) == [1..h -> [1..w -> Palette]]

IdleColors == a = <<<<Black>>>> /\ colors = <<None, None>>

InitColors ==
    /\ \E h \in 1..MaxRows, w \in 1..MaxCols : a \in Regions(h, w)
    /\ colors = <<None, None>>

CallMostCommonColors ==
    /\ pc = "ready"
    /\ colors' = most_common_colors(a)
    /\ pc' = "returned"
    /\ UNCHANGED <<a, contrastVars, wordVars, xpathVars, shotVars>>

----------------------------------------------------------------------------
(* get_contrast_ratio.  An image is a region; its rows and columns are     *)
(* numbered from 0, as in the source.                                      *)

Min(x, y) == IF x < y THEN x ELSE y

\* im[r0:r1, c0:c1] for 0 <= r0 and 0 <= c0: numpy cuts the slice at the
\* image's edge, and a slice that ends before it starts is empty.
Slice(im, r0, r1, c0, c1) ==
    [i \in 1..(Min(r1, Rows(im)) - r0) |->
        [j \in 1..(Min(c1, Cols(im)) - c0) |-> im[r0 + i][c0 + j]]]

\* The sum of channel ch over the first k pixels of column j of a strip.
RECURSIVE ColumnSum(_, _, _, _)
ColumnSum(strip, j, k, ch) ==
    IF k = 0 THEN 0 ELSE strip[k][j][ch] + ColumnSum(strip, j, k - 1, ch)

\* The sum, over the first k columns of a strip, of the column's sum.
RECURSIVE StripSum(_, _, _)
StripSum(strip, k, ch) ==
    IF k = 0 THEN 0
    ELSE ColumnSum(strip, k, Rows(strip), ch) + StripSum(strip, k - 1, ch)

\* strip.mean(axis=0).mean(axis=0): the mean over the rows, column by
\* column, then the mean of these over the columns.  Every column mean has
\* the denominator Rows(strip), so their mean is the sum of the column sums
\* over Rows(strip) * Cols(strip).  The strip is not empty.
MeanColor(strip) ==
    <<StripSum(strip, Cols(strip), 1), StripSum(strip, Cols(strip), 2),
      StripSum(strip, Cols(strip), 3), Rows(strip) * Cols(strip)>>

\* np.vstack([color_above, color_below]).mean(axis=0)
MeanOfTwo(c, d) ==
    <<c[1] * d[4] + d[1] * c[4], c[2] * d[4] + d[2] * c[4],
      c[3] * d[4] + d[3] * c[4], 2 * c[4] * d[4]>>

\* top_border = img[y1 - 3 : y1, x1:x2]; bottom_border = img[y2 : y2 + 3, x1:x2]
border_color(im, x1, x2, y1, y2) ==
    LET top_border == Slice(im, y1 - BorderHeight, y1, x1, x2)
        bottom_border == Slice(im, y2, y2 + BorderHeight, x1, x2)
    IN  MeanOfTwo(MeanColor(top_border), MeanColor(bottom_border))

\* max(contrast_1, contrast_2, contrast_3): the first of the largest.
Max3(p, q, r) ==
    LET m == IF RatLess(p, q) THEN q ELSE p
    IN  IF RatLess(m, r) THEN r ELSE m

\* A bug that would leave the border against the most common colour out.
get_contrast_ratio_without_2(im, x1, x2, y1, y2) ==
    LET word == Slice(im, y1, y2, x1, x2)
        most_common_color == most_common_colors(word)[1]
        second_most_common_color == most_common_colors(word)[2]
        border == border_color(im, x1, x2, y1, y2)
        contrast_1 == IF second_most_common_color # None
                      THEN calculate_contrast_ratio(most_common_color,
                                                    second_most_common_color)
                      ELSE MinusOne
        contrast_3 == IF second_most_common_color # None
                      THEN calculate_contrast_ratio(border, second_most_common_color)
                      ELSE MinusOne
    IN  Max3(contrast_1, contrast_1, contrast_3)

get_contrast_ratio(im, x1, x2, y1, y2) ==
    LET word == Slice(im, y1, y2, x1, x2)
        most_common_color == most_common_colors(word)[1]
        second_most_common_color == most_common_colors(word)[2]
        border == border_color(im, x1, x2, y1, y2)
        contrast_1 == IF second_most_common_color # None
                      THEN calculate_contrast_ratio(most_common_color,
                                                    second_most_common_color)
                      ELSE MinusOne
        contrast_2 == IF most_common_color # None
                      THEN calculate_contrast_ratio(border, most_common_color)
                      ELSE MinusOne
        contrast_3 == IF second_most_common_color # None
                      THEN calculate_contrast_ratio(border, second_most_common_color)
                      ELSE MinusOne
    IN  Max3(contrast_1, contrast_2, contrast_3)

\* The screenshots: a background colour, and at most MaxInk pixels of
\* other colours.
Cells == (1..ImgH) \X (1..ImgW)
Image(bg, paint) ==
    [r \in 1..ImgH |-> [c \in 1..ImgW |->
        IF <<r, c>> \in DOMAIN paint THEN paint[<<r, c>>] ELSE bg]]

\* The bounding boxes with x1 < x2 and y1 < y2 that leave the whole top
\* border and at least one row of the bottom border in the image.
Boxes ==
    {b \in [x1 : 0..ImgW, x2 : 0..ImgW, y1 : 0..ImgH, y2 : 0..ImgH] :
        /\ b.x1 < b.x2
        /\ b.y1 < b.y2
        /\ b.y1 >= BorderHeight
        /\ b.y2 < ImgH}

IdleWord == img = <<<<Black>>>> /\ box = [x1 |-> 0, x2 |-> 0, y1 |-> 0, y2 |-> 0]
                /\ contrast = Rat(0, 1)

InitWord ==
    /\ \E bg \in Palette :
          \E ink \in {s \in SUBSET Cells : Cardinality(s) <= MaxInk} :
             \E paint \in [ink -> Palette \ {bg}] : img = Image(bg, paint)
    /\ box \in Boxes
    /\ contrast = Rat(0, 1)

CallGetContrastRatio ==
    /\ pc = "ready"
    /\ contrast' = get_contrast_ratio(img, box.x1, box.x2, box.y1, box.y2)
    /\ pc' = "returned"
    /\ UNCHANGED <<img, box, contrastVars, colorsVars, xpathVars, shotVars>>

----------------------------------------------------------------------------
(* get_xpath_of_element.  The page is a tree of elements 1..n, element 1   *)
(* its root; dom.parent gives each other element's parent, a lower number, *)
(* so that the elements are numbered in document order; dom.tag gives the  *)
(* tag names; dom.unlisted holds the elements that the driver's            *)
(* enumeration of their parent's children leaves out.                      *)

\* element.tag_name
tag_name(d, e) == d.tag[e]

\* element.find_element_by_xpath("..")
Parent(d, e) == d.parent[e]

\* The elements of a set of numbers, in increasing order.
RECURSIVE InOrder(_)
InOrder(S) ==
    IF S = {} THEN <<>>
    ELSE LET least == CHOOSE x \in S : \A y \in S : x <= y
         IN  <<least>> \o InOrder(S \ {least})

\* parent.find_elements_by_xpath("*"): the children, in document order.
Children(d, p) ==
    InOrder({c \in DOMAIN d.parent : d.parent[c] = p /\ c \notin d.unlisted})

\* The place of the first child the loop finds equal to the element, 0 when
\* it finds none.
IndexAmong(children, e) ==
    IF \E i \in DOMAIN children : children[i] = e
    THEN CHOOSE i \in DOMAIN children :
            children[i] = e /\ \A k \in 1..(i - 1) : children[k] # e
    ELSE 0

\* A bug that would count every child up to the element.
CountAll(d, children, i, e) == i

\* count, when the loop reaches children[i]: the children up to it whose
\* tag name is the element's.
count(d, children, i, e) ==
    Cardinality({k \in 1..i : tag_name(d, children[k]) = tag_name(d, e)})

\* new_prefix = "/" + element.tag_name + "[" + str(count) + "]"
new_prefix(d, e) ==
    LET children == Children(d, Parent(d, e))
    IN  "/" \o tag_name(d, e) \o "["
            \o ToString(count(d, children, IndexAmong(children, e), e)) \o "]"

\* Whether the loop finds the element among its parent's children.
Found(d, e) == IndexAmong(Children(d, Parent(d, e)), e) # 0

\* A bug that would return the path built so far.
PathSoFar(current) == current

\* return ""  # This should never be reached
NotFoundPath(current) == ""

RECURSIVE get_xpath_of_element(_, _, _)
get_xpath_of_element(d, e, current) ==
    IF tag_name(d, e) = "html" THEN "/html[1]" \o current
    ELSE IF Found(d, e)
         THEN get_xpath_of_element(d, Parent(d, e), new_prefix(d, e) \o current)
         ELSE NotFoundPath(current)

\* The tag names of the elements.
Tags == {"html", "div", "p"}

\* The pages of n elements whose root is an html element.
Pages(n) ==
    {[parent |-> par, tag |-> tg, unlisted |-> un] :
        par \in {f \in [2..n -> 1..n] : \A c \in 2..n : f[c] < c},
        tg \in {f \in [1..n -> Tags] : f[1] = "html"},
        un \in SUBSET (2..n)}

IdleXPath ==
    /\ dom = [parent |-> <<>>, tag |-> <<"html">>, unlisted |-> {}]
    /\ target = 1 /\ element = 1 /\ current_xpath = "" /\ xpath = ""

\* The call get_xpath_of_element(target) on a page.
InitXPath ==
    /\ \E n \in 1..MaxNodes :
          /\ dom \in Pages(n)
          /\ target \in 1..n
    /\ element = target
    /\ current_xpath = ""
    /\ xpath = ""

\* if element.tag_name == "html": return "/html[1]" + current_xpath
ReachRoot ==
    /\ pc = "ready"
    /\ tag_name(dom, element) = "html"
    /\ xpath' = "/html[1]" \o current_xpath
    /\ pc' = "returned"
    /\ UNCHANGED <<dom, target, element, current_xpath,
                   contrastVars, colorsVars, wordVars, shotVars>>

\* The element is found among its parent's children:
\* return get_xpath_of_element(parent, new_prefix + current_xpath)
Ascend ==
    /\ pc = "ready"
    /\ tag_name(dom, element) # "html"
    /\ Found(dom, element)
    /\ element' = Parent(dom, element)
    /\ current_xpath' = new_prefix(dom, element) \o current_xpath
    /\ UNCHANGED <<pc, dom, target, xpath,
                   contrastVars, colorsVars, wordVars, shotVars>>

\* The loop ends without finding the element: return ""
NotFound ==
    /\ pc = "ready"
    /\ tag_name(dom, element) # "html"
    /\ ~Found(dom, element)
    /\ xpath' = NotFoundPath(current_xpath)
    /\ pc' = "returned"
    /\ UNCHANGED <<dom, target, element, current_xpath,
                   contrastVars, colorsVars, wordVars, shotVars>>

NextXPath == ReachRoot \/ Ascend \/ NotFound

----------------------------------------------------------------------------
(* take_screenshot.  Each statement that calls the driver is a step; the   *)
(* driver answers a call by carrying it out or by raising, and answers     *)
(* save_screenshot also by returning False, which is how it reports that   *)
(* the file could not be written.  An event is [op, arg, result]: the       *)
(* call, its arguments as a tuple, and "ok", "raised" or "false".          *)

\* A bug that would take the screenshot before resizing the window.
SaveBeforeResize ==
    <<"ready", "get", "get_window_size", "execute_script",
      "save_screenshot", "set_window_size", "return">>

\* The statements of take_screenshot, by what they call, in the order of the
\* source; "ready" is the call of webdriver.Chrome.
Statements ==
    <<"ready", "get", "get_window_size", "execute_script",
      "set_window_size", "save_screenshot", "return">>

\* The statement after the one at label l.
Following(l) ==
    LET i == CHOOSE k \in DOMAIN Statements : Statements[k] = l
    IN  Statements[i + 1]

Event(op, arg, result) == [op |-> op, arg |-> arg, result |-> result]

NoDriver == [launched |-> FALSE, closed |-> FALSE, url |-> "", width |-> 0, height |-> 0]
NoFile == [exists |-> FALSE, url |-> "", width |-> 0, height |-> 0]
NoSize == [width |-> 0, height |-> 0]
Nothing == [outcome |-> "none", value |-> ""]

\* An exception leaves take_screenshot: nothing in it catches one.
Raise(error) ==
    /\ pc' = "raised"
    /\ returned' = [outcome |-> "raised", value |-> error]

ShotArgs ==
    [url : {"http://a.example", "http://b.example"},
     window_width : {800, 1280},
     window_height : {600},
     path : {"a.png", "b.png"},
     scale : {1}]

\* The heights the page's document may have.
ScrollHeights == {600, 3000}

IdleShot ==
    /\ args = [url |-> "", window_width |-> 0, window_height |-> 0,
               path |-> "", scale |-> 0]
    /\ events = <<>>
    /\ driver = NoDriver
    /\ file = NoFile
    /\ original_size = NoSize
    /\ required_height = 0
    /\ returned = Nothing

InitShot ==
    /\ args \in ShotArgs
    /\ events = <<>>
    /\ driver = NoDriver
    /\ file = NoFile
    /\ original_size = NoSize
    /\ required_height = 0
    /\ returned = Nothing

\* driver = webdriver.Chrome(options=chrome_options)
Launch ==
    /\ pc = "ready"
    /\ \/ /\ events' = Append(events, Event("Chrome", <<>>, "ok"))
          /\ driver' = [launched |-> TRUE, closed |-> FALSE, url |-> "",
                        width |-> args.window_width, height |-> args.window_height]
          /\ pc' = Following("ready")
          /\ UNCHANGED returned
       \/ /\ events' = Append(events, Event("Chrome", <<>>, "raised"))
          /\ Raise("launch")
          /\ UNCHANGED driver
    /\ UNCHANGED <<args, file, original_size, required_height,
                   contrastVars, colorsVars, wordVars, xpathVars>>

\* driver.get(url)
Get ==
    /\ pc = "get"
    /\ \/ /\ events' = Append(events, Event("get", <<args.url>>, "ok"))
          /\ driver' = [driver EXCEPT !.url = args.url]
          /\ pc' = Following("get")
          /\ UNCHANGED returned
       \/ /\ events' = Append(events, Event("get", <<args.url>>, "raised"))
          /\ Raise("navigation")
          /\ UNCHANGED driver
    /\ UNCHANGED <<args, file, original_size, required_height,
                   contrastVars, colorsVars, wordVars, xpathVars>>

\* original_size = driver.get_window_size()
GetWindowSize ==
    /\ pc = "get_window_size"
    /\ \/ /\ events' = Append(events, Event("get_window_size", <<>>, "ok"))
          /\ original_size' = [width |-> driver.width, height |-> driver.height]
          /\ pc' = Following("get_window_size")
          /\ UNCHANGED returned
       \/ /\ events' = Append(events, Event("get_window_size", <<>>, "raised"))
          /\ Raise("driver")
          /\ UNCHANGED original_size
    /\ UNCHANGED <<args, driver, file, required_height,
                   contrastVars, colorsVars, wordVars, xpathVars>>

\* required_height = driver.execute_script(
\*     "return document.body.parentNode.scrollHeight")
ExecuteScript ==
    /\ pc = "execute_script"
    /\ \/ /\ events' = Append(events, Event("execute_script", <<>>, "ok"))
          /\ required_height' \in ScrollHeights
          /\ pc' = Following("execute_script")
          /\ UNCHANGED returned
       \/ /\ events' = Append(events, Event("execute_script", <<>>, "raised"))
          /\ Raise("driver")
          /\ UNCHANGED required_height
    /\ UNCHANGED <<args, driver, file, original_size,
                   contrastVars, colorsVars, wordVars, xpathVars>>

\* driver.set_window_size(original_size["width"], required_height)
SetWindowSize ==
    /\ pc = "set_window_size"
    /\ LET arg == <<original_size.width, required_height>>
       IN  \/ /\ events' = Append(events, Event("set_window_size", arg, "ok"))
              /\ driver' = [driver EXCEPT !.width = arg[1], !.height = arg[2]]
              /\ pc' = Following("set_window_size")
              /\ UNCHANGED returned
           \/ /\ events' = Append(events, Event("set_window_size", arg, "raised"))
              /\ Raise("driver")
              /\ UNCHANGED driver
    /\ UNCHANGED <<args, file, original_size, required_height,
                   contrastVars, colorsVars, wordVars, xpathVars>>

\* driver.save_screenshot(str(path)): the value it returns is dropped.
SaveScreenshot ==
    /\ pc = "save_screenshot"
    /\ \/ /\ events' = Append(events, Event("save_screenshot", <<args.path>>, "ok"))
          /\ file' = [exists |-> TRUE, url |-> driver.url,
                      width |-> driver.width, height |-> driver.height]
          /\ pc' = Following("save_screenshot")
          /\ UNCHANGED returned
       \/ /\ events' = Append(events, Event("save_screenshot", <<args.path>>, "false"))
          /\ pc' = Following("save_screenshot")
          /\ UNCHANGED <<file, returned>>
       \/ /\ events' = Append(events, Event("save_screenshot", <<args.path>>, "raised"))
          /\ Raise("driver")
          /\ UNCHANGED file
    /\ UNCHANGED <<args, driver, original_size, required_height,
                   contrastVars, colorsVars, wordVars, xpathVars>>

\* return driver
Return ==
    /\ pc = "return"
    /\ returned' = [outcome |-> "returned", value |-> "driver"]
    /\ pc' = "returned"
    /\ UNCHANGED <<args, events, driver, file, original_size, required_height,
                   contrastVars, colorsVars, wordVars, xpathVars>>

NextShot ==
    \/ Launch
    \/ Get
    \/ GetWindowSize
    \/ ExecuteScript
    \/ SetWindowSize
    \/ SaveScreenshot
    \/ Return

----------------------------------------------------------------------------
(* The specifications: each calls one operation, on every input of the    *)
(* model, while the variables of the others stay as they are.              *)

InitOfContrast ==
    pc = "ready" /\ InitContrast /\ IdleColors /\ IdleWord /\ IdleXPath /\ IdleShot
NextContrast == CallContrast
SpecContrast == InitOfContrast /\ [][NextContrast]_vars

InitOfColors ==
    pc = "ready" /\ IdleContrast /\ InitColors /\ IdleWord /\ IdleXPath /\ IdleShot
NextColors == CallMostCommonColors
SpecColors == InitOfColors /\ [][NextColors]_vars

InitOfWord ==
    pc = "ready" /\ IdleContrast /\ IdleColors /\ InitWord /\ IdleXPath /\ IdleShot
NextWord == CallGetContrastRatio
SpecWord == InitOfWord /\ [][NextWord]_vars

InitOfXPath ==
    pc = "ready" /\ IdleContrast /\ IdleColors /\ IdleWord /\ InitXPath /\ IdleShot
SpecXPath == InitOfXPath /\ [][NextXPath]_vars

InitOfShot ==
    pc = "ready" /\ IdleContrast /\ IdleColors /\ IdleWord /\ IdleXPath /\ InitShot
SpecShot == InitOfShot /\ [][NextShot]_vars

----------------------------------------------------------------------------
(* The claims about calculate_contrast_ratio, under SpecContrast.           *)

EqualSums == RatEq(ChannelSum(color1), ChannelSum(color2))

\* C1: for all colours a, b the contrast ratio lies in [1.0, 21.0]; the
\* colour chosen as light, by the larger channel sum, never has a lower
\* relative luminance than the colour chosen as dark.
C1_RatioInRange ==
    pc = "returned" =>
        /\ ~RatLess(ratio, One)
        /\ ~RatLess(TwentyOne, ratio)
        /\ relative_luminance(light(color1, color2))
              >= relative_luminance(dark(color1, color2))

\* C2: the contrast ratio does not depend on the order of its arguments,
\* equal channel sums included.
C2_Symmetric ==
    pc = "returned" => RatEq(ratio, calculate_contrast_ratio(color2, color1))

\* C2's case: a call on two colours whose ratio is not 1.
C2_Witness ==
    /\ pc = "returned"
    /\ color1 # color2
    /\ ~EqualSums
    /\ ~RatEq(ratio, One)

\* C10: on equal channel sums light and dark are both the second argument,
\* and the result is exactly 1.0 whatever the first argument is, also when
\* the two colours differ in relative luminance.
C10_EqualSumsGiveOne ==
    pc = "returned" /\ EqualSums =>
        /\ light(color1, color2) = color2
        /\ dark(color1, color2) = color2
        /\ ratio.num = ratio.den
        /\ \A c \in InputColors :
              RatEq(ChannelSum(c), ChannelSum(color2))
                  => calculate_contrast_ratio(c, color2) = ratio

\* C10's case: (255, 0, 0) against (0, 255, 0), of different luminance.
C10_Witness ==
    /\ pc = "returned"
    /\ color1 = Red
    /\ color2 = Green
    /\ relative_luminance(color1) # relative_luminance(color2)
    /\ ratio.num = ratio.den

----------------------------------------------------------------------------
(* The claim about most_common_colors, under SpecColors.                   *)

\* The number of pixels of colour c in the region a.
Pixels(c) == Cardinality({rc \in (1..Rows(a)) \X (1..Cols(a)) : a[rc[1]][rc[2]] = c})
Distinct == {a[rc[1]][rc[2]] : rc \in (1..Rows(a)) \X (1..Cols(a))}

----------------------------------------------------------------------------
(* The claim about get_contrast_ratio, under SpecWord.                     *)

\* The pixels of the word box and of the two strips, as sets of <<row,
\* column>> numbered from 1.
WordCells == ((box.y1 + 1)..box.y2) \X ((box.x1 + 1)..box.x2)
TopCells == ((box.y1 - 2)..box.y1) \X ((box.x1 + 1)..box.x2)
BottomCells == ((box.y2 + 1)..Min(box.y2 + 3, Rows(img))) \X ((box.x1 + 1)..box.x2)

RECURSIVE Total(_, _)
Total(cells, ch) ==
    IF cells = {} THEN 0
    ELSE LET rc == CHOOSE x \in cells : TRUE
         IN  img[rc[1]][rc[2]][ch] + Total(cells \ {rc}, ch)

\* The mean of the mean of the top strip and the mean of the bottom strip:
\* (t / nt + b / nb) / 2 in each channel.
BorderColor ==
    LET nt == Cardinality(TopCells)
        nb == Cardinality(BottomCells)
    IN  [ch \in 1..3 |-> Rat(Total(TopCells, ch) * nb + Total(BottomCells, ch) * nt,
                             2 * nt * nb)]

\* The two dominant colours of the word box.
WordColors == most_common_colors(Slice(img, box.y1, box.y2, box.x1, box.x2))

\* The three ratios, -1 standing for one that needs an absent colour.
Ratios(foreground, secondary, border) ==
    <<IF secondary = None THEN MinusOne
      ELSE calculate_contrast_ratio(foreground, secondary),
      IF foreground = None THEN MinusOne
      ELSE calculate_contrast_ratio(border, foreground),
      IF secondary = None THEN MinusOne
      ELSE calculate_contrast_ratio(border, secondary)>>

WordRatios ==
    Ratios(WordColors[1], WordColors[2],
           border_color(img, box.x1, box.x2, box.y1, box.y2))

\* C4: get_contrast_ratio returns the largest of ratio(foreground,
\* secondary), ratio(borderColor, foreground) and ratio(borderColor,
\* secondary), with -1 for a ratio that needs an absent colour, borderColor
\* being the mean of the two strips' means; on a word box of one colour it
\* returns ratio(borderColor, foreground), and it never returns -1 when a
\* ratio was computed.
C4_MaxOfThree ==
    pc = "returned" =>
        LET border == border_color(img, box.x1, box.x2, box.y1, box.y2)
            secondary == WordColors[2]
            ratios == WordRatios
        IN  /\ \A ch \in 1..3 : RatEq(BorderColor[ch], Rat(border[ch], border[4]))
            /\ \E k \in 1..3 : contrast = ratios[k]
            /\ \A k \in 1..3 : ~RatLess(contrast, ratios[k])
            /\ secondary = None => contrast = ratios[2]
            /\ (\E k \in 1..3 : ratios[k] # MinusOne) => contrast # MinusOne

\* C4's case: a word box of one colour between strips of another.
C4_Witness ==
    /\ pc = "returned"
    /\ WordColors[2] = None
    /\ Cardinality({img[rc[1]][rc[2]] : rc \in WordCells}) = 1
    /\ contrast = WordRatios[2]
    /\ ~RatEq(contrast, One)

\* A word box of two colours whose largest ratio is the third.
C4_ThirdIsLargest ==
    /\ pc = "returned"
    /\ WordColors[2] # None
    /\ RatLess(WordRatios[1], WordRatios[3])
    /\ RatLess(WordRatios[2], WordRatios[3])
    /\ contrast = WordRatios[3]

----------------------------------------------------------------------------
(* The claims about get_xpath_of_element, under SpecXPath.                 *)

Nodes == DOMAIN dom.tag

\* The page obeys the DOM's rules: every element is among the children
\* enumerated for its parent.
Consistent == dom.unlisted = {}

\* No element but the root has the tag html.
OneHtml == \A n \in Nodes \ {1} : dom.tag[n] # "html"

\* The number of children of n's parent, up to n in document order, of n's
\* tag name.
Position(n) ==
    Cardinality({m \in 2..n : dom.parent[m] = dom.parent[n] /\ dom.tag[m] = dom.tag[n]})

\* "/html[1]", then one segment "/tag[k]" for each element on the way from
\* the root down to n.
RECURSIVE PathTo(_)
PathTo(n) ==
    IF n = 1 THEN "/html[1]"
    ELSE PathTo(dom.parent[n]) \o "/" \o dom.tag[n] \o "[" \o ToString(Position(n)) \o "]"

\* The page html > div > (p, p).
TwoParagraphs ==
    [parent |-> (2 :> 1) @@ (3 :> 2) @@ (4 :> 2),
     tag |-> <<"html", "div", "p", "p">>,
     unlisted |-> {}]

\* C5: on a page whose only html element is the root, the XPath of an
\* element is "/html[1]" followed by a segment "/tag[k]" for each element
\* from the root down to it, k counting the parent's children of that tag up
\* to the element; the root's is "/html[1]", and the second p under the
\* first div's is "/html[1]/div[1]/p[2]".
C5_PathFromRoot ==
    pc = "returned" /\ Consistent /\ OneHtml =>
        /\ xpath = PathTo(target)
        /\ target = 1 => xpath = "/html[1]"
        /\ dom = TwoParagraphs /\ target = 4 => xpath = "/html[1]/div[1]/p[2]"

\* C5's case: the second paragraph of html > div > (p, p).
C5_Witness ==
    /\ pc = "returned"
    /\ dom = TwoParagraphs
    /\ target = 4
    /\ xpath = "/html[1]/div[1]/p[2]"

\* C6: the XPaths of two distinct elements of a page differ.
C6_Unique ==
    pc = "returned" /\ Consistent =>
        \A other \in Nodes \ {target} : get_xpath_of_element(dom, other, "") # xpath

\* The call under way has reached an element that is not among the children
\* enumerated for its parent.
Lost ==
    /\ pc = "ready"
    /\ tag_name(dom, element) # "html"
    /\ \A i \in DOMAIN Children(dom, Parent(dom, element)) :
          Children(dom, Parent(dom, element))[i] # element

\* C7: when the element reached is not among the children enumerated for
\* its parent, the call returns the empty string, whatever path it had
\* built, and ascends no further.
C7_LostGivesEmpty ==
    [][Lost => pc' = "returned" /\ xpath' = "" /\ element' = element]_vars

\* C7's case: the call returned the empty string after it had ascended and
\* built a part of the path.
C7_Witness ==
    /\ pc = "returned"
    /\ element \in dom.unlisted
    /\ element # target
    /\ current_xpath # ""
    /\ xpath = ""

----------------------------------------------------------------------------
(* The claims about take_screenshot, under SpecShot.                       *)

\* C8: the driver is launched, then navigates to the url, then is asked the
\* document's scroll height, then is resized to the original width and that
\* height, and only then saves the screenshot to the path; the driver that
\* did so is returned, and it is not closed.
C8_OrderOfCalls ==
    /\ \A i \in DOMAIN events :
          events[i].op = <<"Chrome", "get", "get_window_size", "execute_script",
                           "set_window_size", "save_screenshot">>[i]
    /\ pc = "returned" =>
          /\ Len(events) = 6
          /\ events[2].arg = <<args.url>>
          /\ events[5].arg = <<original_size.width, required_height>>
          /\ events[6].arg = <<args.path>>
          /\ file.exists => file.height = required_height /\ file.url = args.url
          /\ returned = [outcome |-> "returned", value |-> "driver"]
          /\ driver.launched
          /\ ~driver.closed

\* C8's case: a call that returned, on a page higher than the window.
C8_Witness ==
    /\ pc = "returned"
    /\ required_height > args.window_height
    /\ file.exists
    /\ file.height = required_height

\* C9: a failure to launch, to navigate or to write the file reaches the
\* caller as an error: take_screenshot returns the driver only when the
\* screenshot was written, also when the driver reports the failure to
\* write by the value save_screenshot returns.
C9_FailuresSurface ==
    pc = "returned" =>
        /\ \A i \in DOMAIN events : events[i].result = "ok"
        /\ file.exists

====
